---- MODULE Spec2Model ----
(***************************************************************************)
(* Model of the competitor price scraper: the SQLite price store           *)
(* (database.py), the retry orchestrator BaseScraper.run                   *)
(* (scrapers/base_scraper.py) and the adapters' run_efficient methods.     *)
(*                                                                         *)
(* Dates are day numbers, instants are clock ticks, an optional value      *)
(* (Python None / SQL NULL) is the empty sequence and a present value x    *)
(* is <<x>>.                                                               *)
(***************************************************************************)
EXTENDS Integers, Sequences, FiniteSets, TLC

\* ------------------------------------------------------------------ bounds
TicksPerDay == 2
MaxTime == 2
MaxCalls == 2
MaxWindows == 2
MaxItems == 2
MaxWork == 2
MaxOffsets == 2
MaxStayTypes == 2
MaxRetryAttempts == 2

\* BaseScraper.__init__: rate_limit (in clock ticks) and max_retries
rate_limit == 2
max_retries == 3

\* run_efficient(max_pages=...): the page limit of the paginating adapters
max_pages == 2

\* The most save_price calls of a sequence of calls that is followed
MaxSaves == 3

\* The most arrival dates the availability requests return
MaxDates == 11

\* westerbergen.py, the price loop of the page script: `i += 10`,
\* `dates.slice(i, i + 10)`
BatchSize == 10

\* ------------------------------------------------------------------ values
None == <<>>
Some(x) == <<x>>

Competitors == {"Westerbergen", "Beerze Bulten"}

\* (check_in, check_out) pairs the callers ask for
Stays == {<<10, 12>>, <<10, 13>>}

PriceValues == {None, Some(100), Some(150)}

\* The fields save_price overwrites unconditionally, in two bundles that
\* differ in every field.
OtherFields ==
    { [accommodation_type |-> "Luxe Bungalow", min_nights |-> Some(2),
       special_offers |-> None, persons |-> 4],
      [accommodation_type |-> "Bosbungalow", min_nights |-> Some(3),
       special_offers |-> Some("Korting"), persons |-> 2] }

\* The stays asked of a competitor: two of them for one competitor only
StaysOf(c) == IF c = "Westerbergen" THEN Stays ELSE {<<10, 12>>}

\* The other fields a competitor's scraper writes: one accommodation for
\* one competitor, either bundle for the other
FieldsOf(c) ==
    IF c = "Westerbergen" THEN OtherFields
    ELSE {o \in OtherFields : o.accommodation_type = "Luxe Bungalow"}

\* The keyword arguments of save_price
SaveArgs ==
    UNION { { [competitor_name |-> c,
               accommodation_type |-> o.accommodation_type,
               check_in_date |-> s[1], check_out_date |-> s[2],
               price |-> p, available |-> a, min_nights |-> o.min_nights,
               special_offers |-> o.special_offers, persons |-> o.persons] :
              s \in StaysOf(c), p \in PriceValues, a \in BOOLEAN,
              o \in FieldsOf(c) } : c \in Competitors }

Statuses == {"success", "partial", "failed"}

VARIABLES
    now,          \* the wall clock, in ticks
    prices,       \* the rows of table prices
    prices_seq,   \* the AUTOINCREMENT counter of table prices
    scrape_log,   \* the rows of table scrape_log, in insertion order
    call          \* the last store operation: its number, name, arguments,
                  \* instant, and the stored row it met

VARIABLES
    pc,                 \* where the scraper's run method stands
    variant,            \* which run method the scraper executes
    last_request_time,  \* BaseScraper._last_request_time
    browser,            \* "none", "open" or "closed"
    page,               \* the number of the current page, 0 before the first
    open_pages,         \* the pages created and not closed
    nwin,               \* len(dates)
    di,                 \* the position of date_info in dates
    attempt,            \* the attempt number within the current window
    errors,             \* the error counter of the run
    results,            \* the records captured by the run, in order
    tries,              \* per window, the scrape_price calls made for it
    page_num,           \* run_efficient: the page being parsed
    seen_keys,          \* run_efficient: the (check_in, check_out) pairs taken
    last_sent,          \* the instant of the last outbound request, if any
    request_gap,        \* the time between the last two outbound requests
    last_outcome,       \* how the last scrape_price call of run() ended
    last_unit           \* run_efficient: the last unit of work (a page, a
                        \* departure) and what the loop did with it

VARIABLES
    gen,                \* a generate_check_dates call: today, its arguments
                        \* and, once it has returned, the list it returns
    resolved            \* a _resolve_date call: the header's day and month,
                        \* the reference and, once returned, the date

VARIABLES
    phase,              \* where run_pipeline stands
    to_run,             \* the keys of the scrapers to run, in map order
    retry_failed,       \* automation.retry_failed
    max_retry_attempts, \* automation.max_retry_attempts
    pos,                \* the position in the list being iterated
    retry_attempt,      \* the attempt number of the retry loop
    retry_list,         \* the scrapers of the current retry pass
    failed_scrapers,    \* the scrapers whose last run raised
    scrape_results,     \* per scraper key, the result recorded
    invocations,        \* the run_efficient calls made so far, in order
    dry_run,            \* run_pipeline(dry_run=...)
    skip_scrape,        \* run_pipeline(skip_scrape=...)
    exit_code           \* what run_pipeline returns, once it has returned

VARIABLES
    fetch_pc,           \* where the page script of the session adapter stands
    dates,              \* the script's sorted list of arrival dates
    batch_i,            \* the script's loop index i
    requests,           \* the price requests issued so far, by position in
                        \* dates: "pending", "ok" or "failed"
    allPrices           \* the script's list of collected raw prices

VARIABLES
    saves               \* the save_price calls of a followed sequence of
                        \* calls, in order: the arguments and the instant

fetchVars == <<fetch_pc, dates, batch_i, requests, allPrices>>
pipeVars == <<phase, to_run, retry_failed, max_retry_attempts, pos,
              retry_attempt, retry_list, failed_scrapers, scrape_results,
              invocations, dry_run, skip_scrape, exit_code>>
outsideVars == <<gen, resolved, phase, to_run, retry_failed,
                 max_retry_attempts, pos, retry_attempt, retry_list,
                 failed_scrapers, scrape_results, invocations,
                 dry_run, skip_scrape, exit_code,
                 fetch_pc, dates, batch_i, requests, allPrices, saves>>
storeVars == <<now, prices, prices_seq, scrape_log, call>>
runVars == <<pc, variant, last_request_time, browser, page, open_pages,
             nwin, di, attempt, errors, results, tries, page_num, seen_keys,
             last_sent, request_gap, last_outcome, last_unit>>
vars == <<now, prices, prices_seq, scrape_log, call,
          pc, variant, last_request_time, browser, page, open_pages,
          nwin, di, attempt, errors, results, tries, page_num, seen_keys,
          last_sent, request_gap, last_outcome, last_unit, gen, resolved,
          phase, to_run, retry_failed, max_retry_attempts, pos, retry_attempt,
          retry_list, failed_scrapers, scrape_results, invocations,
          dry_run, skip_scrape, exit_code,
          fetch_pc, dates, batch_i, requests, allPrices, saves>>

\* ------------------------------------------------------------------ store
\* now.strftime("%Y-%m-%d")
DateOf(t) == t \div TicksPerDay

\* int(available)
IntOfBool(b) == IF b THEN 1 ELSE 0

\* The row the INSERT proposes (SQL's "excluded")
Excluded(rec, t) ==
    [competitor_name |-> rec.competitor_name,
     accommodation_type |-> rec.accommodation_type,
     check_in_date |-> rec.check_in_date,
     check_out_date |-> rec.check_out_date,
     price |-> rec.price,
     available |-> IntOfBool(rec.available),
     min_nights |-> rec.min_nights,
     special_offers |-> rec.special_offers,
     persons |-> rec.persons,
     scrape_timestamp |-> t,
     scrape_date |-> DateOf(t)]

\* UNIQUE(competitor_name, check_in_date, check_out_date, scrape_date)
ConflictKeyNoScrapeDate(r) ==
    <<r.competitor_name, r.check_in_date, r.check_out_date, 0>>

ConflictKey(r) ==
    <<r.competitor_name, r.check_in_date, r.check_out_date, r.scrape_date>>

\* ON CONFLICT ... DO UPDATE SET ...
DoUpdateAvailable(old, ex) ==
    [old EXCEPT !.price = IF ex.price # None THEN ex.price ELSE old.price,
                !.available = ex.available,
                !.min_nights = ex.min_nights,
                !.special_offers = ex.special_offers,
                !.accommodation_type = ex.accommodation_type,
                !.persons = ex.persons,
                !.scrape_timestamp = ex.scrape_timestamp]

DoUpdateAlways(old, ex) ==
    [old EXCEPT !.price = ex.price,
                !.available = ex.available,
                !.min_nights = ex.min_nights,
                !.special_offers = ex.special_offers,
                !.accommodation_type = ex.accommodation_type,
                !.persons = ex.persons,
                !.scrape_timestamp = ex.scrape_timestamp]

DoUpdateFirstWins(old, ex) ==
    [old EXCEPT !.price = IF old.price = None THEN ex.price ELSE old.price,
                !.available = IF old.price = None THEN ex.available
                              ELSE old.available,
                !.min_nights = ex.min_nights,
                !.special_offers = ex.special_offers,
                !.accommodation_type = ex.accommodation_type,
                !.persons = ex.persons,
                !.scrape_timestamp = ex.scrape_timestamp]

DoUpdateKeepOffers(old, ex) ==
    [old EXCEPT !.price = IF ex.price # None THEN ex.price ELSE old.price,
                !.available = IF ex.price # None THEN ex.available
                              ELSE old.available,
                !.min_nights = ex.min_nights,
                !.special_offers = IF ex.price # None THEN ex.special_offers
                                   ELSE old.special_offers,
                !.accommodation_type = ex.accommodation_type,
                !.persons = ex.persons,
                !.scrape_timestamp = ex.scrape_timestamp]

DoUpdate(old, ex) ==
    [old EXCEPT !.price = IF ex.price # None THEN ex.price ELSE old.price,
                !.available = IF ex.price # None THEN ex.available
                              ELSE old.available,
                !.min_nights = ex.min_nights,
                !.special_offers = ex.special_offers,
                !.accommodation_type = ex.accommodation_type,
                !.persons = ex.persons,
                !.scrape_timestamp = ex.scrape_timestamp]

\* The row with its id column
WithId(ex, id) ==
    [id |-> id,
     competitor_name |-> ex.competitor_name,
     accommodation_type |-> ex.accommodation_type,
     check_in_date |-> ex.check_in_date,
     check_out_date |-> ex.check_out_date,
     price |-> ex.price,
     available |-> ex.available,
     min_nights |-> ex.min_nights,
     special_offers |-> ex.special_offers,
     persons |-> ex.persons,
     scrape_timestamp |-> ex.scrape_timestamp,
     scrape_date |-> ex.scrape_date]

\* The rows the proposed row conflicts with
ConflictingNever(rows, ex) == {}

Conflicting(rows, ex) == {r \in rows : ConflictKey(r) = ConflictKey(ex)}

\* Database.save_price: the table after the upsert made at instant t
save_price_insert_only(rows, seq, rec, t) ==
    rows \cup {WithId(Excluded(rec, t), seq + 1)}

save_price(rows, seq, rec, t) ==
    LET ex == Excluded(rec, t)
        hit == Conflicting(rows, ex)
    IN  IF hit = {}
        THEN rows \cup {WithId(ex, seq + 1)}
        ELSE (rows \ hit) \cup {DoUpdate(r, ex) : r \in hit}

\* The AUTOINCREMENT counter after the upsert: it moves on an insert only
save_price_seq(rows, seq, rec, t) ==
    IF Conflicting(rows, Excluded(rec, t)) = {} THEN seq + 1 ELSE seq

\* Database.log_scrape: the appended scrape_log row
LogRow(competitor, status, records_scraped, nerrors, t) ==
    [competitor_name |-> competitor, timestamp |-> t, status |-> status,
     records_scraped |-> records_scraped,
     error_message |-> IF nerrors > 0 THEN Some(nerrors) ELSE None]

\* ------------------------------------------------------------------ queries
\* GROUP BY competitor_name, check_in_date, check_out_date
StayKey(r) == <<r.competitor_name, r.check_in_date, r.check_out_date>>

\* The rows of the group of row r
SameStay(rows, r) ==
    {q \in rows : /\ q.competitor_name = r.competitor_name
                  /\ q.check_in_date = r.check_in_date
                  /\ q.check_out_date = r.check_out_date}

\* MAX(scrape_timestamp) of the group of row r
MinTs(rows, r) ==
    LET ts == {q.scrape_timestamp : q \in SameStay(rows, r)}
    IN  CHOOSE t \in ts : \A u \in ts : t <= u

MaxTs(rows, r) ==
    LET ts == {q.scrape_timestamp : q \in SameStay(rows, r)}
    IN  CHOOSE t \in ts : \A u \in ts : u <= t

\* Database.get_latest_prices: the rows returned (their ORDER BY is left
\* out); competitor is None or Some(name)
get_latest_prices(rows, competitor) ==
    {p \in rows :
        /\ competitor # None => p.competitor_name = competitor[1]
        /\ p.scrape_timestamp = MaxTs(rows, p)}

\* julianday(check_out_date) - julianday(check_in_date), rounded
Nights(r) == r.check_out_date - r.check_in_date

\* durations = [2, 3, 4, 7] when none are given
DefaultDurations == {2, 3, 4, 7}

\* The columns get_comparison_data selects
ComparisonRow(r) ==
    [competitor_name |-> r.competitor_name,
     accommodation_type |-> r.accommodation_type,
     check_in_date |-> r.check_in_date,
     check_out_date |-> r.check_out_date,
     price |-> r.price,
     available |-> r.available,
     special_offers |-> r.special_offers,
     nights |-> Nights(r)]

\* The WHERE clause of get_comparison_data
ComparisonWhereAnyNights(r, scrape_date, durations) ==
    /\ r.scrape_date = scrape_date
    /\ r.price # None

ComparisonWhere(r, scrape_date, durations) ==
    /\ r.scrape_date = scrape_date
    /\ r.price # None
    /\ Nights(r) \in durations

\* Database.get_comparison_data: the rows returned (their ORDER BY is left
\* out); durations is None or Some(set)
get_comparison_data(rows, scrape_date, durations) ==
    LET ds == IF durations = None THEN DefaultDurations ELSE durations[1]
    IN  {ComparisonRow(r) : r \in {x \in rows : ComparisonWhere(x, scrape_date, ds)}}

\* The WHERE clause of get_price_history
HistoryWhereAnyCompetitor(r, competitor, check_in) ==
    r.check_in_date = check_in

HistoryWhere(r, competitor, check_in) ==
    /\ r.competitor_name = competitor
    /\ r.check_in_date = check_in

\* Database.get_price_history: the lists it can return, ORDER BY
\* scrape_timestamp leaving the order of equal timestamps open
get_price_history(rows, competitor, check_in) ==
    LET sel == {r \in rows : HistoryWhere(r, competitor, check_in)} IN
    {h \in [1..Cardinality(sel) -> sel] :
        /\ \A i, j \in 1..Cardinality(sel) : i # j => h[i] # h[j]
        /\ \A i, j \in 1..Cardinality(sel) :
              i < j => h[i].scrape_timestamp <= h[j].scrape_timestamp}

\* ------------------------------------------------------------------ actions
\* time.time() at the start: far from 0, the initial _last_request_time
Epoch == TicksPerDay * rate_limit

\* No call of a helper under study
NoCall == [returned |-> FALSE]

\* A scraper instance before any of its run methods is called
InitRun ==
    /\ pc = "idle"
    /\ variant = "none"
    /\ last_request_time = 0
    /\ browser = "none"
    /\ page = 0
    /\ open_pages = {}
    /\ nwin = 0
    /\ di = 0
    /\ attempt = 0
    /\ errors = 0
    /\ results = <<>>
    /\ tries = <<>>
    /\ page_num = 0
    /\ seen_keys = {}
    /\ last_sent = None
    /\ request_gap = None
    /\ last_outcome = "none"
    /\ last_unit = None
    /\ fetch_pc = "none"
    /\ dates = <<>>
    /\ batch_i = 0
    /\ requests = <<>>
    /\ allPrices = <<>>
    /\ saves = <<>>

\* The tables as _init_db creates them
EmptyStore ==
    /\ prices = {}
    /\ prices_seq = 0
    /\ scrape_log = <<>>
    /\ call = [seq |-> 0, op |-> "init", rec |-> None, at |-> 0, old |-> None]

InitScraper ==
    /\ now = Epoch
    /\ InitRun
    /\ EmptyStore

\* run_pipeline is not running
NoPipeline ==
    /\ phase = "none"
    /\ to_run = <<>>
    /\ retry_failed = FALSE
    /\ max_retry_attempts = 0
    /\ pos = 0
    /\ retry_attempt = 0
    /\ retry_list = <<>>
    /\ failed_scrapers = <<>>
    /\ scrape_results = <<>>
    /\ invocations = <<>>
    /\ dry_run = FALSE
    /\ skip_scrape = FALSE
    /\ exit_code = None

Init ==
    /\ InitScraper
    /\ gen = NoCall
    /\ resolved = NoCall
    /\ NoPipeline

\* The stored row an upsert at instant t meets, if any (kept with the call
\* for the properties below; the store itself does not read it)
OldRow(rows, rec, t) ==
    LET hit == {r \in rows :
                  /\ r.competitor_name = rec.competitor_name
                  /\ r.check_in_date = rec.check_in_date
                  /\ r.check_out_date = rec.check_out_date
                  /\ r.scrape_date = t \div TicksPerDay}
    IN  IF hit = {} THEN None ELSE Some(CHOOSE r \in hit : TRUE)

\* One save_price call, as a store step of any caller
DbSavePrice(rec, t) ==
    /\ prices' = save_price(prices, prices_seq, rec, t)
    /\ prices_seq' = save_price_seq(prices, prices_seq, rec, t)
    /\ call' = [seq |-> call.seq + 1, op |-> "save_price", rec |-> Some(rec),
                at |-> t, old |-> OldRow(prices, rec, t)]

\* One log_scrape call
DbLogScrape(competitor, status, records_scraped, nerrors, t) ==
    /\ scrape_log' = Append(scrape_log,
                            LogRow(competitor, status, records_scraped,
                                   nerrors, t))

SavePrice ==
    /\ call.seq < MaxCalls
    /\ UNCHANGED outsideVars
    /\ \E rec \in SaveArgs : DbSavePrice(rec, now)
    /\ UNCHANGED <<now, scrape_log, runVars>>

LogScrape ==
    /\ call.seq < MaxCalls
    /\ UNCHANGED outsideVars
    /\ \E c \in Competitors, s \in {"success", "failed"} :
          DbLogScrape(c, s, 0, 0, now)
    /\ call' = [seq |-> call.seq + 1, op |-> "log_scrape", rec |-> None,
                at |-> now, old |-> None]
    /\ UNCHANGED <<now, prices, prices_seq, runVars>>

Tick ==
    /\ now < Epoch + MaxTime
    /\ UNCHANGED outsideVars
    /\ now' = now + 1
    /\ UNCHANGED <<prices, prices_seq, scrape_log, call, runVars>>

Next == SavePrice \/ LogScrape \/ Tick

Spec == Init /\ [][Next]_vars

\* A caller's save_price calls for one competitor, followed call by call
SaveOnKey ==
    /\ Len(saves) < MaxSaves
    /\ \E rec \in SaveArgs :
          /\ rec.competitor_name = "Beerze Bulten"
          /\ DbSavePrice(rec, now)
          /\ saves' = Append(saves, [rec |-> rec, at |-> now])
    /\ UNCHANGED <<now, scrape_log, runVars, gen, resolved, pipeVars,
                   fetchVars>>

SavesSpec == Init /\ [][SaveOnKey \/ Tick]_vars

\* ------------------------------------------------------------------ BaseScraper
\* The scraper instance under study
SelfName == "Beerze Bulten"
SelfAccommodation == "Luxe Bungalow"
SelfPersons == 4

\* dates[i]: the windows are distinct, as generate_check_dates returns them
DateWindow(i) == [check_in |-> 10 + i, check_out |-> 12 + i]

\* What scrape_price can return for window i other than None
ScrapeResults(i) ==
    { [price |-> Some(100), available |-> TRUE, min_nights |-> Some(2),
       special_offers |-> None],
      [price |-> None, available |-> FALSE, min_nights |-> Some(2),
       special_offers |-> None] }

\* BaseScraper._wait_rate_limit: the instant at which it returns
WaitRateLimit(t, last) ==
    IF t - last < rate_limit THEN t + (rate_limit - (t - last)) ELSE t

\* What a page load or a scrape_price call, with the sleeps and the parsing
\* that follow it, can take
WorkTimes == 1..MaxWork

\* An outbound request (page.goto, a click that loads data) issued at t
Sent(t) ==
    /\ last_sent' = Some(t)
    /\ request_gap' = IF last_sent = None THEN None ELSE Some(t - last_sent[1])

\* self.db.save_price(**record) inside the attempt
RunSaveDeferred(rec, t) == UNCHANGED <<prices, prices_seq, call>>

RunSave(rec, t) == DbSavePrice(rec, t)

\* The record BaseScraper.run builds from a scrape_price result
RunRecord(i, res) ==
    [competitor_name |-> SelfName,
     accommodation_type |-> SelfAccommodation,
     check_in_date |-> DateWindow(i).check_in,
     check_out_date |-> DateWindow(i).check_out,
     price |-> res.price,
     available |-> res.available,
     min_nights |-> res.min_nights,
     special_offers |-> res.special_offers,
     persons |-> SelfPersons]

\* status = "success" if errors == 0 else "partial" if results else "failed"
RunStatus(nerrors, recs) ==
    IF nerrors = 0 THEN "success"
    ELSE IF recs # <<>> THEN "partial" ELSE "failed"

\* for attempt in range(1, max_retries + 1): is this attempt the last one
LastAttempt(a) == a = max_retries

\* errors after a failed attempt that raised
ErrorsAfter(nerrors, a) == IF a = max_retries THEN nerrors + 1 ELSE nerrors

\* The handler of a non-timeout exception: page.close() (an exception of
\* which is swallowed: the page is gone already) and the number of the page
\* that _create_page makes
SamePage(p) == p

FreshPage(p) == p + 1

\* The loop position after an attempt that did not break out of the loop
NextAttempt ==
    IF LastAttempt(attempt)
    THEN di' = di + 1 /\ attempt' = 1
    ELSE di' = di /\ attempt' = attempt + 1

\* run(): sync_playwright, _create_browser, _create_page, up to the loop
RunStart ==
    /\ pc = "idle"
    /\ UNCHANGED outsideVars
    /\ variant' = "run"
    /\ \E n \in 1..MaxWindows :  \* generate_check_dates yields a window
          /\ nwin' = n
          /\ tries' = [i \in 1..n |-> 0]
    /\ results' = <<>>
    /\ errors' = 0
    /\ \/ \* the first page is created
          /\ browser' = "open"
          /\ page' = page + 1
          /\ open_pages' = {page + 1}
          /\ di' = 1
          /\ attempt' = 1
          /\ pc' = "loop"
       \/ \* _create_page raises: the finally clause closes the browser and
          \* the exception leaves run()
          /\ browser' = "closed"
          /\ open_pages' = {}
          /\ pc' = "raised"
          /\ UNCHANGED <<page, di, attempt>>
    /\ UNCHANGED <<storeVars, last_request_time, page_num, seen_keys,
                   last_sent, request_gap, last_outcome, last_unit>>

\* One pass of the attempt loop body: _wait_rate_limit, scrape_price and the
\* handling of its outcome
Attempt ==
    /\ pc = "loop"
    /\ UNCHANGED outsideVars
    /\ variant = "run"
    /\ di <= nwin
    /\ \E d \in WorkTimes :
       LET t == WaitRateLimit(now, last_request_time) IN
       /\ now' = t + d
       /\ last_request_time' = t
       /\ Sent(t)
       /\ tries' = [tries EXCEPT ![di] = @ + 1]
       /\ \/ \* scrape_price returns a result: save it and break
             /\ \E res \in ScrapeResults(di) :
                   /\ RunSave(RunRecord(di, res), t + d)
                   /\ results' = Append(results, RunRecord(di, res))
             /\ di' = di + 1
             /\ attempt' = 1
             /\ last_outcome' = "result"
             /\ UNCHANGED <<errors, page, open_pages, browser, pc,
                            scrape_log>>
          \/ \* scrape_price returns None
             /\ NextAttempt
             /\ last_outcome' = "None"
             /\ UNCHANGED <<errors, results, page, open_pages, browser, pc,
                            prices, prices_seq, scrape_log, call>>
          \/ \* PlaywrightTimeout
             /\ errors' = ErrorsAfter(errors, attempt)
             /\ NextAttempt
             /\ last_outcome' = "timeout"
             /\ UNCHANGED <<results, page, open_pages, browser, pc,
                            prices, prices_seq, scrape_log, call>>
          \/ \* another exception: the page is closed and a fresh one made
             /\ errors' = ErrorsAfter(errors, attempt)
             /\ NextAttempt
             /\ last_outcome' = "error"
             /\ page' = FreshPage(page)
             /\ open_pages' = {FreshPage(page)}
             /\ UNCHANGED <<results, browser, pc,
                            prices, prices_seq, scrape_log, call>>
          \/ \* another exception, and _create_page raises in the handler:
             \* the finally clause closes the browser, run() raises
             /\ errors' = ErrorsAfter(errors, attempt)
             /\ last_outcome' = "error"
             /\ open_pages' = {}
             /\ browser' = "closed"
             /\ pc' = "raised"
             /\ UNCHANGED <<results, page, di, attempt,
                            prices, prices_seq, scrape_log, call>>
    /\ UNCHANGED <<nwin, variant, page_num, seen_keys, last_unit>>

\* After the loop of run(): browser.close(), the status, the scrape_log row
RunFinish ==
    /\ pc = "loop"
    /\ UNCHANGED outsideVars
    /\ variant = "run"
    /\ di > nwin
    /\ browser' = "closed"
    /\ open_pages' = {}
    /\ DbLogScrape(SelfName, RunStatus(errors, results), Len(results),
                   errors, now)
    /\ pc' = "done"
    /\ UNCHANGED <<now, prices, prices_seq, call, variant, last_request_time,
                   page, nwin, di, attempt, errors, results, tries,
                   page_num, seen_keys, last_sent, request_gap,
                   last_outcome, last_unit>>

\* ------------------------------------------------------------------ run_efficient
\* target_end_date, as a day number
TargetEnd == 21

\* `if key in seen_keys: continue`
SeenNever(key, seen) == FALSE

SeenKey(key, seen) == key \in seen

\* The optional argument as a one-record list
Opt(rec, keep) == IF keep THEN <<rec>> ELSE <<>>

\* status of the two API adapters: "success" if errors == 0 else "failed"
ApiStatus(nerrors) == IF nerrors = 0 THEN "success" ELSE "failed"

\* The status a run method logs
StatusOf(v, nerrors, recs) ==
    IF v \in {"rest", "session"} THEN ApiStatus(nerrors)
    ELSE RunStatus(nerrors, recs)

\* The table, the counter and the last call after saving recs in order
RECURSIVE SaveAll(_, _, _)
SaveAll(db, recs, t) ==
    IF recs = <<>> THEN db
    ELSE SaveAll([rows |-> save_price(db.rows, db.seq, Head(recs), t),
                  seq |-> save_price_seq(db.rows, db.seq, Head(recs), t),
                  call |-> [seq |-> db.call.seq + 1, op |-> "save_price",
                            rec |-> Some(Head(recs)), at |-> t,
                            old |-> OldRow(db.rows, Head(recs), t)]],
                 Tail(recs), t)

DbSaveAll(recs, t) ==
    LET db == SaveAll([rows |-> prices, seq |-> prices_seq, call |-> call],
                      recs, t)
    IN  /\ prices' = db.rows
        /\ prices_seq' = db.seq
        /\ call' = db.call

\* ---- Variant B: HolidayAgentScraper.run_efficient (REST batch API)
RestWhitelist == {2, 3, 4, 5, 7}

\* One departure of the API response, with the arrival it belongs to
RestDeparture(arr, shp, dt, n, tp, ap, dp, aa) ==
    [arrival |-> arr, shape |-> shp, date |-> dt, nights |-> n,
     totalPrice |-> tp, additionalPrice |-> ap, discountPrice |-> dp,
     amountAvailable |-> aa]

RestDepartures ==
    { RestDeparture(Some(20), "dict", Some(22), 2, Some(100), 20, 0, 1),
      RestDeparture(Some(20), "dict", Some(23), 3, None, 20, 10, 1),
      RestDeparture(Some(20), "dict", Some(26), 6, Some(150), 0, 0, 1),
      RestDeparture(Some(20), "dict", Some(23), 2, Some(100), 0, 0, 1),
      RestDeparture(Some(20), "dict", None, 2, Some(100), 0, 0, 0),
      RestDeparture(Some(20), "other", None, 0, None, 0, 0, 0),
      RestDeparture(None, "dict", Some(22), 2, Some(100), 0, 0, 1) }

\* total_price = base_price (+ additional_price)
TotalPrice(d) ==
    IF d.totalPrice # None /\ d.additionalPrice # 0
    THEN Some(d.totalPrice[1] + d.additionalPrice)
    ELSE d.totalPrice

\* What the loop body does with one departure: "skip" it (continue, or a
\* caught TypeError/ValueError/KeyError), "store" a record, or "crash" with
\* an exception that reaches the outer handler
RestOutcome(d) ==
    IF d.arrival = None THEN "skip"
    ELSE IF d.shape # "dict" THEN "crash"
    ELSE IF d.nights \notin RestWhitelist THEN "skip"
    ELSE IF d.date = None THEN "skip"
    ELSE "store"

RestRecord(d) ==
    [competitor_name |-> SelfName,
     accommodation_type |-> SelfAccommodation,
     check_in_date |-> d.arrival[1],
     check_out_date |-> d.date[1],
     price |-> TotalPrice(d),
     available |-> (d.amountAvailable > 0 /\ TotalPrice(d) # None),
     min_nights |-> Some(d.nights),
     special_offers |-> IF d.discountPrice > 0 THEN Some("Korting") ELSE None,
     persons |-> SelfPersons]

\* _fetch_arrivals
RestStart ==
    /\ pc = "idle"
    /\ UNCHANGED outsideVars
    /\ variant' = "rest"
    /\ results' = <<>>
    /\ \/ \* the API call fails
          /\ errors' = 1
          /\ pc' = "finish"
          /\ UNCHANGED <<nwin, di>>
       \/ \* the API returns n departures in all
          /\ \E n \in 0..MaxItems : nwin' = n
          /\ di' = 1
          /\ errors' = 0
          /\ pc' = "loop"
    /\ UNCHANGED <<storeVars, last_request_time, browser, page, open_pages,
                   attempt, tries, page_num, seen_keys, last_sent,
                   request_gap,
                   last_outcome, last_unit>>

\* One pass of the departure loop body
RestStep ==
    /\ pc = "loop"
    /\ UNCHANGED outsideVars
    /\ variant = "rest"
    /\ di <= nwin
    /\ \E d \in RestDepartures :
          /\ DbSaveAll(Opt(RestRecord(d), RestOutcome(d) = "store"), now)
          /\ results' = results \o Opt(RestRecord(d), RestOutcome(d) = "store")
          /\ errors' = IF RestOutcome(d) = "crash" THEN errors + 1 ELSE errors
          /\ pc' = IF RestOutcome(d) = "crash" THEN "finish" ELSE "loop"
          /\ last_unit' =
                Some([departure |-> d,
                      stored |-> Opt(RestRecord(d), RestOutcome(d) = "store"),
                      aborted |-> (RestOutcome(d) = "crash")])
    /\ di' = di + 1
    /\ UNCHANGED <<now, scrape_log, variant, last_request_time, browser,
                   page, open_pages, nwin, attempt, tries, page_num,
                   seen_keys, last_sent, request_gap,
                   last_outcome>>

\* ---- Variant D: WesterbergenScraper.run_efficient (session API)
SessionPrice(arr, wf, dep, n, pr, num, av, disc, fp) ==
    [arrivaldate |-> arr, wellformed |-> wf, departuredate |-> dep,
     nights |-> n, price |-> pr, numeric |-> num, available |-> av,
     discounted |-> disc, fromprice |-> fp]

SessionPrices ==
    { SessionPrice(Some(20), TRUE, 22, 2, Some(100), TRUE, 1, FALSE, 0),
      SessionPrice(Some(20), TRUE, 23, 3, Some(150), TRUE, 0, TRUE, 200),
      SessionPrice(Some(20), TRUE, 24, 4, None, TRUE, 1, FALSE, 0),
      SessionPrice(None, TRUE, 22, 2, Some(100), TRUE, 1, FALSE, 0),
      SessionPrice(Some(20), FALSE, 22, 2, Some(100), TRUE, 1, FALSE, 0),
      SessionPrice(Some(20), TRUE, 27, 7, Some(100), FALSE, 1, FALSE, 0) }

SessionKey(p) == <<p.arrivaldate[1], p.departuredate>>

\* "skip", "store" or "crash", as for RestOutcome; float(price) raises on a
\* price that is not a number
SessionOutcome(p, seen) ==
    IF p.arrivaldate = None \/ p.price = None THEN "skip"
    ELSE IF ~p.wellformed THEN "skip"
    ELSE IF SeenKey(SessionKey(p), seen) THEN "skip"
    ELSE IF ~p.numeric THEN "crash"
    ELSE "store"

SessionRecord(p) ==
    [competitor_name |-> SelfName,
     accommodation_type |-> SelfAccommodation,
     check_in_date |-> p.arrivaldate[1],
     check_out_date |-> p.departuredate,
     price |-> p.price,
     available |-> (p.available # 0),
     min_nights |-> Some(p.nights),
     special_offers |-> IF p.discounted /\ p.fromprice # 0
                           /\ p.fromprice > p.price[1]
                        THEN Some("Was") ELSE None,
     persons |-> SelfPersons]

\* The browser, the booking page and the batched fetch in page.evaluate
SessionStart ==
    /\ pc = "idle"
    /\ UNCHANGED outsideVars
    /\ variant' = "session"
    /\ results' = <<>>
    /\ seen_keys' = {}
    /\ browser' = "open"
    /\ \/ \* _create_page, page.goto or page.evaluate raises
          /\ errors' = 1
          /\ pc' = "finish"
          /\ UNCHANGED <<nwin, di, page, open_pages>>
       \/ \* the fetch returns n price entries
          /\ \E n \in 0..MaxItems : nwin' = n
          /\ di' = 1
          /\ errors' = 0
          /\ page' = page + 1
          /\ open_pages' = {page + 1}
          /\ pc' = "loop"
    /\ UNCHANGED <<storeVars, last_request_time, attempt, tries, page_num,
                   last_sent, request_gap,
                   last_outcome, last_unit>>

\* One pass of the loop over the price entries
SessionStep ==
    /\ pc = "loop"
    /\ UNCHANGED outsideVars
    /\ variant = "session"
    /\ di <= nwin
    /\ \E p \in SessionPrices :
          LET out == SessionOutcome(p, seen_keys) IN
          /\ DbSaveAll(Opt(SessionRecord(p), out = "store"), now)
          /\ results' = results \o Opt(SessionRecord(p), out = "store")
          /\ seen_keys' = IF out \in {"store", "crash"}
                          THEN seen_keys \cup {SessionKey(p)} ELSE seen_keys
          /\ errors' = IF out = "crash" THEN errors + 1 ELSE errors
          /\ pc' = IF out = "crash" THEN "finish" ELSE "loop"
    /\ di' = di + 1
    /\ UNCHANGED <<now, scrape_log, variant, last_request_time, browser,
                   page, open_pages, nwin, attempt, tries, page_num,
                   last_sent, request_gap,
                   last_outcome, last_unit>>

\* ---- Variant A: BeerzeBultenScraper.run_efficient (price grid)
GridDurations == {2, 3, 4, 7}

\* One cell of the parsed grid; check_in is the resolved date header, None
\* when _resolve_date returns None
GridEntry(ci, n, pr, av) ==
    [check_in |-> ci, nights |-> n, price |-> pr, available |-> av]

GridEntryLists ==
    { <<>>,
      <<GridEntry(Some(20), 2, Some(100), TRUE)>>,
      <<GridEntry(Some(20), 2, Some(150), TRUE),
        GridEntry(Some(21), 3, None, FALSE)>>,
      <<GridEntry(Some(20), 5, Some(100), TRUE),
        GridEntry(None, 2, Some(100), TRUE)>> }

\* One loaded grid page: grid is "absent" (wait_for_selector times out),
\* "ok", or "broken" (an exception after the listed entries were handled);
\* last is the resolved last date header; later tells a 'Later' link exists
GridPages ==
    { [grid |-> g, entries |-> es, last |-> l, later |-> lt] :
        g \in {"absent", "ok", "broken"}, es \in GridEntryLists,
        l \in {None, Some(20), Some(22)}, lt \in BOOLEAN }

GridRecord(e) ==
    [competitor_name |-> SelfName,
     accommodation_type |-> SelfAccommodation,
     check_in_date |-> e.check_in[1],
     check_out_date |-> e.check_in[1] + e.nights,
     price |-> e.price,
     available |-> e.available,
     min_nights |-> Some(e.nights),
     special_offers |-> None,
     persons |-> SelfPersons]

\* The records the entry loop saves, and seen_keys after it
RECURSIVE GridNew(_, _)
GridNew(entries, seen) ==
    IF entries = <<>> THEN [recs |-> <<>>, seen |-> seen]
    ELSE LET e == Head(entries) IN
         IF e.nights \notin GridDurations \/ e.check_in = None
         THEN GridNew(Tail(entries), seen)
         ELSE LET key == <<e.check_in[1], e.check_in[1] + e.nights>> IN
              IF SeenKey(key, seen) THEN GridNew(Tail(entries), seen)
              ELSE LET rest == GridNew(Tail(entries), seen \cup {key}) IN
                   [recs |-> <<GridRecord(e)>> \o rest.recs,
                    seen |-> rest.seen]

\* The browser, the first page and the first page.goto (no rate-limit wait)
GridStart ==
    /\ pc = "idle"
    /\ UNCHANGED outsideVars
    /\ variant' = "grid"
    /\ results' = <<>>
    /\ seen_keys' = {}
    /\ errors' = 0
    /\ \/ \* the start page loads: page.goto, not preceded by
          \* _wait_rate_limit, then the sleeps
          /\ browser' = "open"
          /\ page' = page + 1
          /\ open_pages' = {page + 1}
          /\ page_num' = 1
          /\ pc' = "loop"
          /\ Sent(now)
          /\ \E d \in WorkTimes : now' = now + d
       \/ \* _create_page raises: finally closes the browser and the
          \* exception leaves run_efficient()
          /\ browser' = "closed"
          /\ pc' = "raised"
          /\ UNCHANGED <<page, open_pages, page_num, now, last_sent,
                         request_gap>>
       \/ \* page.goto raises: the same, after the request
          /\ browser' = "closed"
          /\ pc' = "raised"
          /\ Sent(now)
          /\ UNCHANGED <<page, open_pages, page_num, now>>
    /\ UNCHANGED <<prices, prices_seq, scrape_log, call, last_request_time,
                   nwin, di, attempt, tries,
                   last_outcome, last_unit>>

\* What a pass of the page loop met and did: the number of the page, whether
\* it had the structure, whether its last date was beyond the target end
\* date, whether it offered a way on, the records taken from it, and whether
\* the loop went on to another page
PageSeen(num, structure, past_end, later, captured, paged) ==
    [number |-> num, structure |-> structure, past_end |-> past_end,
     later |-> later, captured |-> captured, paged |-> paged]

\* One pass of the page loop body
GridPage ==
    /\ pc = "loop"
    /\ UNCHANGED outsideVars
    /\ variant = "grid"
    /\ page_num <= max_pages
    /\ \E pg \in GridPages :
          \/ \* no price grid: count an error and leave the loop
             /\ pg.grid = "absent"
             /\ errors' = errors + 1
             /\ pc' = "finish"
             /\ last_unit' = Some(PageSeen(page_num, "absent", FALSE,
                                          pg.later, 0, FALSE))
             /\ UNCHANGED <<storeVars, last_request_time, results, seen_keys,
                            page_num, browser, open_pages, last_sent,
                            request_gap>>
          \/ /\ pg.grid # "absent"
             /\ LET new == GridNew(pg.entries, seen_keys)
                    t == WaitRateLimit(now, last_request_time)
                    past == pg.last # None /\ pg.last[1] > TargetEnd
                    ended == pg.grid = "ok" /\ past
                    seen(paged) == Some(PageSeen(page_num, pg.grid, past,
                                                 pg.later, Len(new.recs),
                                                 paged))
                IN
                /\ DbSaveAll(new.recs, now)
                /\ results' = results \o new.recs
                /\ seen_keys' = new.seen
                /\ errors' = IF pg.grid = "broken" THEN errors + 1 ELSE errors
                /\ \/ \* past the target end date, or no 'Later' link
                      /\ ended \/ ~pg.later
                      /\ pc' = "finish"
                      /\ last_unit' = seen(FALSE)
                      /\ UNCHANGED <<now, last_request_time, page_num,
                                     browser, open_pages, last_sent,
                                     request_gap>>
                   \/ \* _wait_rate_limit and page.goto to the later page
                      /\ ~ended /\ pg.later
                      /\ \E d \in WorkTimes : now' = t + d
                      /\ last_request_time' = t
                      /\ Sent(t)
                      /\ page_num' = page_num + 1
                      /\ last_unit' = seen(TRUE)
                      /\ UNCHANGED <<pc, browser, open_pages>>
                   \/ \* page.goto raises: the browser is closed and the
                      \* exception leaves run_efficient()
                      /\ ~ended /\ pg.later
                      /\ now' = t
                      /\ last_request_time' = t
                      /\ Sent(t)
                      /\ browser' = "closed"
                      /\ open_pages' = {}
                      /\ pc' = "raised"
                      /\ last_unit' = seen(TRUE)
                      /\ UNCHANGED page_num
             /\ UNCHANGED scrape_log
    /\ UNCHANGED <<variant, page, nwin, di, attempt, tries,
                   last_outcome>>

\* ---- Variant C: WitterZomerScraper.run_efficient (rendered matrix)
STAY_DURATIONS == {2, 3, 4, 7}

\* One record of _parse_widget_matrix
WidgetRecord(ci, co, pr, dur, sp) ==
    [check_in_date |-> ci, check_out_date |-> co, price |-> pr,
     available |-> TRUE, min_nights |-> dur, special_offers |-> sp]

WidgetRecordLists ==
    { <<>>,
      <<WidgetRecord(20, 22, Some(100), 2, None)>>,
      <<WidgetRecord(20, 22, Some(150), 2, Some("Was")),
        WidgetRecord(22, 29, Some(150), 7, None)>>,
      <<WidgetRecord(20, 25, Some(100), 5, None)>> }

\* One state of the widget: parse is "raises" or "ok" (an absent widget is
\* "ok" with no records and no next button); next is what the next button
\* does when it is asked for: "click", "hidden" or "raises"
WidgetPages ==
    { [parse |-> ps, records |-> rs, has_next |-> hn, next |-> nx] :
        ps \in {"raises", "ok"}, rs \in WidgetRecordLists,
        hn \in BOOLEAN, nx \in {"click", "hidden", "raises"} }

MatrixRecord(r) ==
    [competitor_name |-> SelfName,
     accommodation_type |-> SelfAccommodation,
     check_in_date |-> r.check_in_date,
     check_out_date |-> r.check_out_date,
     price |-> r.price,
     available |-> r.available,
     min_nights |-> Some(r.min_nights),
     special_offers |-> r.special_offers,
     persons |-> SelfPersons]

\* The records the loop saves, seen_keys and max_date_seen after it
RECURSIVE MatrixNew(_, _, _)
MatrixNew(records, seen, maxseen) ==
    IF records = <<>> THEN [recs |-> <<>>, seen |-> seen, max |-> maxseen]
    ELSE LET r == Head(records)
             key == <<r.check_in_date, r.check_out_date>>
         IN
         IF r.min_nights \notin STAY_DURATIONS \/ SeenKey(key, seen)
         THEN MatrixNew(Tail(records), seen, maxseen)
         ELSE LET m == IF maxseen = None \/ r.check_in_date > maxseen[1]
                       THEN Some(r.check_in_date) ELSE maxseen
                  rest == MatrixNew(Tail(records), seen \cup {key}, m)
              IN  [recs |-> <<MatrixRecord(r)>> \o rest.recs,
                   seen |-> rest.seen, max |-> rest.max]

\* The browser, the page and the detail page load
MatrixStart ==
    /\ pc = "idle"
    /\ UNCHANGED outsideVars
    /\ variant' = "matrix"
    /\ results' = <<>>
    /\ seen_keys' = {}
    /\ browser' = "open"
    /\ \/ \* the detail page loads: page.goto, not preceded by
          \* _wait_rate_limit, then the sleep
          /\ errors' = 0
          /\ page' = page + 1
          /\ open_pages' = {page + 1}
          /\ page_num' = 1
          /\ pc' = "loop"
          /\ Sent(now)
          /\ \E d \in WorkTimes : now' = now + d
       \/ \* _create_page or page.goto raises: caught by the outer handler
          /\ errors' = 1
          /\ pc' = "finish"
          /\ UNCHANGED <<page, open_pages, page_num, now, last_sent,
                         request_gap>>
    /\ UNCHANGED <<prices, prices_seq, scrape_log, call, last_request_time,
                   nwin, di, attempt, tries,
                   last_outcome, last_unit>>

\* One pass of the page loop body
MatrixPage ==
    /\ pc = "loop"
    /\ UNCHANGED outsideVars
    /\ variant = "matrix"
    /\ page_num <= max_pages
    /\ \E pg \in WidgetPages :
          \/ \* _parse_widget_matrix raises
             /\ pg.parse = "raises"
             /\ errors' = errors + 1
             /\ pc' = "finish"
             /\ last_unit' = Some(PageSeen(page_num, "raises", FALSE, FALSE,
                                          0, FALSE))
             /\ UNCHANGED <<storeVars, last_request_time, results, seen_keys,
                            page_num, last_sent, request_gap>>
          \/ /\ pg.parse = "ok"
             /\ LET new == MatrixNew(pg.records, seen_keys, None)
                    t == WaitRateLimit(now, last_request_time)
                    ended == new.max # None /\ new.max[1] >= TargetEnd
                    seen(paged) == Some(PageSeen(page_num, "ok", ended,
                                                 pg.has_next, Len(new.recs),
                                                 paged))
                IN
                /\ DbSaveAll(new.recs, now)
                /\ results' = results \o new.recs
                /\ seen_keys' = new.seen
                /\ \/ \* the target end date is reached, or no next button
                      /\ ended \/ ~pg.has_next
                      /\ pc' = "finish"
                      /\ last_unit' = seen(FALSE)
                      /\ UNCHANGED <<now, last_request_time, page_num,
                                     last_sent, request_gap>>
                   \/ \* _wait_rate_limit and a click on the next button
                      /\ ~ended /\ pg.has_next /\ pg.next = "click"
                      /\ \E d \in WorkTimes : now' = t + d
                      /\ last_request_time' = t
                      /\ Sent(t)
                      /\ page_num' = page_num + 1
                      /\ last_unit' = seen(TRUE)
                      /\ UNCHANGED pc
                   \/ \* the button is gone or hidden, or the navigation
                      \* raises: leave the loop, no error counted
                      /\ ~ended /\ pg.has_next /\ pg.next # "click"
                      /\ now' = t
                      /\ last_request_time' = t
                      /\ pc' = "finish"
                      /\ last_unit' = seen(FALSE)
                      /\ UNCHANGED <<page_num, last_sent, request_gap>>
             /\ UNCHANGED <<scrape_log, errors>>
    /\ UNCHANGED <<variant, browser, page, open_pages, nwin, di, attempt,
                   tries,
                   last_outcome>>

\* The end of run_efficient: browser.close() where there is a browser, the
\* status and the scrape_log row
EffFinish ==
    /\ variant \in {"rest", "session", "grid", "matrix"}
    /\ UNCHANGED outsideVars
    /\ \/ pc = "finish"
       \/ pc = "loop" /\ variant \in {"rest", "session"} /\ di > nwin
       \/ pc = "loop" /\ variant \in {"grid", "matrix"} /\ page_num > max_pages
    /\ browser' = IF browser = "open" THEN "closed" ELSE browser
    /\ open_pages' = {}
    /\ DbLogScrape(SelfName, StatusOf(variant, errors, results),
                   Len(results), errors, now)
    /\ pc' = "done"
    /\ UNCHANGED <<now, prices, prices_seq, call, variant, last_request_time,
                   page, nwin, di, attempt, errors, results, tries,
                   page_num, seen_keys, last_sent, request_gap,
                   last_outcome, last_unit>>

NextScraper ==
    \/ RunStart \/ Attempt \/ RunFinish
    \/ RestStart \/ RestStep
    \/ SessionStart \/ SessionStep
    \/ GridStart \/ GridPage
    \/ MatrixStart \/ MatrixPage
    \/ EffFinish

ScraperSpec == Init /\ [][NextScraper]_vars

\* ------------------------------------------------------------------ page script
\* The script WesterbergenScraper.run_efficient evaluates in the page, from
\* its second step on: the price requests, in batches.

\* page.evaluate is called and step 1 ends: any number of arrival dates,
\* sorted; `allPrices = []`, `i = 0`
FetchStart ==
    /\ fetch_pc = "none"
    /\ \E n \in 0..MaxDates : dates' = [p \in 1..n |-> 20 + p]
    /\ fetch_pc' = "loop"
    /\ UNCHANGED <<batch_i, requests, allPrices>>
    /\ UNCHANGED <<storeVars, runVars, gen, resolved, pipeVars, saves>>

\* dates.slice(i, i + 10), as positions of dates
Batch(i) ==
    {p \in 1..Len(dates) : i < p /\ p <= i + BatchSize}

RECURSIVE BatchPrices(_, _, _)
\* priceResults.forEach: the raw prices of positions from..to, in order; a
\* completed request contributes the raw prices of its response, a failed
\* one none, for the `{periods: [], packages: []}` its catch handler
\* substitutes
BatchPrices(reqs, from, to) ==
    IF from > to THEN <<>>
    ELSE (IF reqs[from] = "ok"
          THEN <<[arrivaldate |-> dates[from], nights |-> 2]>>
          ELSE <<>>)
         \o BatchPrices(reqs, from + 1, to)

\* A wait that ends with the first settled promise of the batch
BatchAnySettled(reqs, batch) ==
    \E p \in batch : reqs[p] # "pending"

\* await Promise.all(pricePromises): every promise of the batch has settled
\* (none rejects: each carries its own catch handler)
BatchSettled(reqs, batch) ==
    \A p \in batch : reqs[p] # "pending"

\* The loop guard holds: batch.map issues every request of the batch
FetchBatch ==
    /\ fetch_pc = "loop"
    /\ batch_i < Len(dates)
    /\ requests' = requests \o
          [p \in 1..Cardinality(Batch(batch_i)) |-> "pending"]
    /\ fetch_pc' = "await"
    /\ UNCHANGED <<dates, batch_i, allPrices>>
    /\ UNCHANGED <<storeVars, runVars, gen, resolved, pipeVars, saves>>

\* One outstanding request completes, or fails and is caught
FetchSettle ==
    /\ fetch_pc = "await"
    /\ \E p \in DOMAIN requests, outcome \in {"ok", "failed"} :
          /\ requests[p] = "pending"
          /\ requests' = [requests EXCEPT ![p] = outcome]
    /\ UNCHANGED <<fetch_pc, dates, batch_i, allPrices>>
    /\ UNCHANGED <<storeVars, runVars, gen, resolved, pipeVars, saves>>

\* Promise.all resolves: the results are collected and the loop advances
FetchCollect ==
    /\ fetch_pc = "await"
    /\ BatchSettled(requests, Batch(batch_i))
    /\ allPrices' = allPrices \o
          BatchPrices(requests, batch_i + 1, Len(requests))
    /\ batch_i' = batch_i + BatchSize
    /\ fetch_pc' = "loop"
    /\ UNCHANGED <<dates, requests>>
    /\ UNCHANGED <<storeVars, runVars, gen, resolved, pipeVars, saves>>

\* The loop guard fails: return {dates: dates.length, prices: allPrices}
FetchReturn ==
    /\ fetch_pc = "loop"
    /\ batch_i >= Len(dates)
    /\ fetch_pc' = "done"
    /\ UNCHANGED <<dates, batch_i, requests, allPrices>>
    /\ UNCHANGED <<storeVars, runVars, gen, resolved, pipeVars, saves>>

NextFetch ==
    \/ FetchStart
    \/ FetchBatch \/ FetchSettle \/ FetchCollect \/ FetchReturn

FetchSpec == Init /\ [][NextFetch]_vars

\* ------------------------------------------------------------------ generate_check_dates
\* day_map: the weekday numbers, Monday = 0; day number 0 is a Monday
Weekday(d) == d % 7

\* The day offsets a caller can pass in days_ahead_list
Offsets == {0, 3, 7}

\* The entries a caller can put in stay_types: name, check_in_day, nights
StayTypePool ==
    { [stay_type |-> "weekend", check_in_day |-> 4, nights |-> 2],
      [stay_type |-> "midweek", check_in_day |-> 0, nights |-> 4],
      [stay_type |-> "week", check_in_day |-> 4, nights |-> 7],
      [stay_type |-> "short", check_in_day |-> 4, nights |-> 2] }

\* The sequences of at most n elements of S
SeqsUpTo(S, n) == UNION {[1..k -> S] : k \in 0..n}

\* The lists of day offsets, duplicates and any order included
OffsetLists == SeqsUpTo(Offsets, MaxOffsets)

\* The stay-type mappings, in insertion order: the keys of a dict differ
StayTypeMaps ==
    {m \in SeqsUpTo(StayTypePool, MaxStayTypes) :
        \A i, j \in 1..Len(m) : i # j => m[i].stay_type # m[j].stay_type}

\* The window of one day offset and one stay type
CheckWindow(today, days_ahead, st) ==
    LET target == today + days_ahead
        days_until == (st.check_in_day - Weekday(target)) % 7
        check_in == target + days_until
    IN  [check_in |-> check_in, check_out |-> check_in + st.nights,
         stay_type |-> st.stay_type, nights |-> st.nights]

\* for stay_name, stay_config in stay_types.items(): dates.append(...)
RECURSIVE WindowsOfOffset(_, _, _)
WindowsOfOffset(today, days_ahead, sts) ==
    IF sts = <<>> THEN <<>>
    ELSE <<CheckWindow(today, days_ahead, Head(sts))>>
         \o WindowsOfOffset(today, days_ahead, Tail(sts))

\* for days_ahead in days_ahead_list: ...
RECURSIVE AllWindows(_, _, _)
AllWindows(today, offs, sts) ==
    IF offs = <<>> THEN <<>>
    ELSE WindowsOfOffset(today, Head(offs), sts)
         \o AllWindows(today, Tail(offs), sts)

\* Remove duplicates (same check_in + check_out): the first one is kept
KeepAllDates(ds, seen) == ds

RECURSIVE UniqueDates(_, _)
UniqueDates(ds, seen) ==
    IF ds = <<>> THEN <<>>
    ELSE LET key == <<Head(ds).check_in, Head(ds).check_out>> IN
         IF key \in seen THEN UniqueDates(Tail(ds), seen)
         ELSE <<Head(ds)>> \o UniqueDates(Tail(ds), seen \cup {key})

\* sorted(unique_dates, key=lambda x: x["check_in"]): a stable sort
RECURSIVE InsertByCheckIn(_, _)
InsertByCheckIn(d, sorted) ==
    IF sorted = <<>> THEN <<d>>
    ELSE IF Head(sorted).check_in <= d.check_in
         THEN <<Head(sorted)>> \o InsertByCheckIn(d, Tail(sorted))
         ELSE <<d>> \o sorted

RECURSIVE SortByCheckIn(_)
SortByCheckIn(ds) ==
    IF ds = <<>> THEN <<>>
    ELSE InsertByCheckIn(ds[Len(ds)], SortByCheckIn(SubSeq(ds, 1, Len(ds) - 1)))

generate_check_dates(today, days_ahead_list, stay_types) ==
    SortByCheckIn(UniqueDates(AllWindows(today, days_ahead_list, stay_types),
                              {}))

\* A caller about to call generate_check_dates on any day of the week
InitDates ==
    /\ InitScraper
    /\ resolved = NoCall
    /\ NoPipeline
    /\ \E t \in 0..6, offs \in OffsetLists, sts \in StayTypeMaps :
          gen = [returned |-> FALSE, today |-> t, days_ahead_list |-> offs,
                 stay_types |-> sts]

GenerateCheckDates ==
    /\ ~gen.returned
    /\ gen' = [returned |-> TRUE, today |-> gen.today,
               days_ahead_list |-> gen.days_ahead_list,
               stay_types |-> gen.stay_types,
               dates |-> generate_check_dates(gen.today, gen.days_ahead_list,
                                              gen.stay_types)]
    /\ UNCHANGED <<storeVars, runVars, resolved, pipeVars,
                   fetchVars, saves>>

NextDates == GenerateCheckDates

DatesSpec == InitDates /\ [][NextDates]_vars

\* ------------------------------------------------------------------ _resolve_date
\* The calendar of datetime
IsLeap(y) == (y % 4 = 0 /\ y % 100 # 0) \/ y % 400 = 0

DaysInMonth(y, m) ==
    IF m = 2 THEN (IF IsLeap(y) THEN 29 ELSE 28)
    ELSE IF m \in {4, 6, 9, 11} THEN 30 ELSE 31

DaysInYear(y) == IF IsLeap(y) THEN 366 ELSE 365

\* The first year of the calendar the model looks at
BaseYear == 2026

RECURSIVE DaysBeforeYear(_)
DaysBeforeYear(y) ==
    IF y <= BaseYear THEN 0 ELSE DaysBeforeYear(y - 1) + DaysInYear(y - 1)

RECURSIVE DaysBeforeMonth(_, _)
DaysBeforeMonth(y, m) ==
    IF m <= 1 THEN 0 ELSE DaysBeforeMonth(y, m - 1) + DaysInMonth(y, m - 1)

\* datetime(year, month, day) raises ValueError unless the day exists
ValidDate(y, m, d) == d \in 1..DaysInMonth(y, m)

\* The day number of a date, counted from 1 January of BaseYear
Ordinal(y, m, d) == DaysBeforeYear(y) + DaysBeforeMonth(y, m) + d

\* The reference as an instant: midnight of its date plus its time of day
RefInstant(ref) ==
    Ordinal(ref.year, ref.month, ref.day) * TicksPerDay + ref.tick

Abs(x) == IF x < 0 THEN 0 - x ELSE x

\* diff = abs((candidate - ref).days): timedelta.days is the floor of the
\* difference in days
Diff(y, m, d, ref) ==
    Abs((Ordinal(y, m, d) * TicksPerDay - RefInstant(ref)) \div TicksPerDay)

\* for year in [ref.year, ref.year + 1]: the best candidate so far
Best(y, m, d, ref, best) ==
    IF ~ValidDate(y, m, d) THEN best
    ELSE IF best = None \/ Diff(y, m, d, ref) < best[1][2]
         THEN Some(<<y, Diff(y, m, d, ref)>>)
         ELSE best

\* The (year, month, day) of the returned string, or None
resolve_date(d, m, ref) ==
    LET best == Best(ref.year + 1, m, d, ref, Best(ref.year, m, d, ref, None))
    IN  IF best = None THEN None ELSE Some(<<best[1][1], m, d>>)

\* The day numbers in the headers and the reference dates looked at
HeaderDays == {1, 27, 29, 31}
RefDays == {1, 2, 5, 28}
RefYears == {2026, 2027}

\* The references: a date, or datetime.now() with a time of day
References ==
    { [year |-> y, month |-> m, day |-> d, tick |-> k] :
        y \in RefYears, m \in 1..12, d \in RefDays, k \in 0..(TicksPerDay - 1) }

InitResolve ==
    /\ InitScraper
    /\ gen = NoCall
    /\ NoPipeline
    /\ \E d \in HeaderDays, m \in 1..12, ref \in References :
          resolved = [returned |-> FALSE, day |-> d, month |-> m, ref |-> ref]

ResolveDate ==
    /\ ~resolved.returned
    /\ resolved' = [returned |-> TRUE, day |-> resolved.day,
                    month |-> resolved.month, ref |-> resolved.ref,
                    date |-> resolve_date(resolved.day, resolved.month,
                                          resolved.ref)]
    /\ UNCHANGED <<storeVars, runVars, gen, pipeVars,
                   fetchVars, saves>>

NextResolve == ResolveDate

ResolveSpec == InitResolve /\ [][NextResolve]_vars

\* ------------------------------------------------------------------ run_pipeline
\* get_scraper_map: the scraper keys, in the order of the mapping
ScraperKeys == <<"beerze_bulten", "witter_zomer", "westerbergen">>

\* The competitors a configuration can disable
Optional == {"beerze_bulten", "witter_zomer"}

\* to_run: westerbergen and the enabled competitors, in map order
RECURSIVE ToRun(_, _)
ToRun(keys, enabled) ==
    IF keys = <<>> THEN <<>>
    ELSE IF Head(keys) = "westerbergen" \/ Head(keys) \in enabled
         THEN <<Head(keys)>> \o ToRun(Tail(keys), enabled)
         ELSE ToRun(Tail(keys), enabled)

\* The number of records a run_efficient call can return
RecordCounts == {0, 2}

\* competitor_name of the scraper under a key
NameOf(key) ==
    CASE key = "beerze_bulten" -> "Beerze Bulten"
      [] key = "witter_zomer" -> "Witter Zomer"
      [] OTHER -> "Westerbergen"

\* The i-th record a run_efficient call of the scraper under key captures
PipelineRecord(key, i) ==
    [competitor_name |-> NameOf(key),
     accommodation_type |-> SelfAccommodation,
     check_in_date |-> 20,
     check_out_date |-> 21 + i,
     price |-> Some(100),
     available |-> TRUE,
     min_nights |-> Some(1 + i),
     special_offers |-> None,
     persons |-> SelfPersons]

\* The tables after an earlier day's run: one price row and its log row
SeedRows ==
    save_price({}, 0, PipelineRecord("westerbergen", 1), Epoch - TicksPerDay)

SeedLog == <<LogRow("Westerbergen", "success", 1, 0, Epoch - TicksPerDay)>>

EXIT_SUCCESS == 0
EXIT_PARTIAL == 1
EXIT_FATAL == 2

\* A run_pipeline call with any arguments under any configuration, on a
\* database that holds an earlier day's rows
InitPipeline ==
    /\ now = Epoch
    /\ InitRun
    /\ prices = SeedRows
    /\ prices_seq = Cardinality(SeedRows)
    /\ scrape_log = SeedLog
    /\ call = [seq |-> 0, op |-> "init", rec |-> None, at |-> 0, old |-> None]
    /\ gen = NoCall
    /\ resolved = NoCall
    /\ dry_run \in BOOLEAN
    /\ skip_scrape \in BOOLEAN
    /\ phase = IF skip_scrape THEN "analytics"
               ELSE IF dry_run THEN "dry" ELSE "first"
    /\ \E enabled \in SUBSET Optional :
          to_run = IF skip_scrape \/ dry_run THEN <<>>
                   ELSE ToRun(ScraperKeys, enabled)
    /\ retry_failed \in BOOLEAN
    /\ max_retry_attempts \in 0..MaxRetryAttempts
    /\ pos = 1
    /\ retry_attempt = 0
    /\ retry_list = <<>>
    /\ failed_scrapers = <<>>
    /\ scrape_results = <<>>
    /\ invocations = <<>>
    /\ exit_code = None

\* The phase after an exception of run_efficient: `except Exception` keeps
\* the loop going
NotCaught(ph) == "crashed"

Caught(ph) == ph

\* retry_list = list(failed_scrapers)
RetryAll(failed, all) == all

RetryList(failed, all) == failed

\* One scraper.run_efficient call in pass number pass (0 is the first pass)
\* and the handling of its outcome
RunScraper(key, pass, ok_status) ==
    \/ \* it returns its records, saved and logged; a scraper that caught
       \* its own failure returns no record and has logged "failed"
       /\ \E n \in RecordCounts, s \in {"success", "failed"} :
             /\ n > 0 => s = "success"
             /\ DbSaveAll([i \in 1..n |-> PipelineRecord(key, i)], now)
             /\ DbLogScrape(NameOf(key), s, n, IF s = "success" THEN 0 ELSE 1,
                            now)
             /\ scrape_results' =
                   (key :> [status |-> ok_status, records |-> n])
                      @@ scrape_results
             /\ invocations' =
                   Append(invocations, [key |-> key, pass |-> pass,
                                        raised |-> FALSE])
       /\ UNCHANGED <<failed_scrapers, phase>>
    \/ \* it raises, after saving some records and before log_scrape
       /\ \E n \in RecordCounts :
             DbSaveAll([i \in 1..n |-> PipelineRecord(key, i)], now)
       /\ UNCHANGED scrape_log
       /\ scrape_results' =
             (key :> [status |-> "failed", records |-> 0]) @@ scrape_results
       /\ failed_scrapers' = Append(failed_scrapers, key)
       /\ invocations' = Append(invocations,
                                [key |-> key, pass |-> pass, raised |-> TRUE])
       /\ phase' = Caught(phase)

\* First pass: the body of `for key, scraper in to_run.items()`
FirstPassRun ==
    /\ phase = "first"
    /\ pos <= Len(to_run)
    /\ RunScraper(to_run[pos], 0, "success")
    /\ pos' = pos + 1
    /\ UNCHANGED <<to_run, retry_failed, max_retry_attempts, dry_run,
                   skip_scrape, retry_attempt, retry_list, exit_code, now,
                   runVars, gen, resolved, fetchVars, saves>>

\* Enter retry pass number a, or leave the scrape phase when a is beyond
\* max_retries
EnterRetry(a) ==
    IF a <= max_retry_attempts
    THEN /\ phase' = "retry"
         /\ retry_attempt' = a
         /\ retry_list' = RetryList(failed_scrapers, to_run)
         /\ failed_scrapers' = <<>>
         /\ pos' = 1
    ELSE /\ phase' = "analytics"
         /\ UNCHANGED <<retry_attempt, retry_list, failed_scrapers, pos>>

\* The end of the first pass: `if failed_scrapers and retry_failed:`
FirstPassEnd ==
    /\ phase = "first"
    /\ pos > Len(to_run)
    /\ IF failed_scrapers # <<>> /\ retry_failed
       THEN EnterRetry(1)
       ELSE /\ phase' = "analytics"
            /\ UNCHANGED <<retry_attempt, retry_list, failed_scrapers, pos>>
    /\ UNCHANGED <<to_run, retry_failed, max_retry_attempts, dry_run,
                   skip_scrape, scrape_results, invocations, exit_code,
                   storeVars, runVars, gen, resolved, fetchVars, saves>>

\* Retry pass: the body of `for key in retry_list`
RetryRun ==
    /\ phase = "retry"
    /\ pos <= Len(retry_list)
    /\ RunScraper(retry_list[pos], retry_attempt, "success (retry)")
    /\ pos' = pos + 1
    /\ UNCHANGED <<to_run, retry_failed, max_retry_attempts, dry_run,
                   skip_scrape, retry_attempt, retry_list, exit_code, now,
                   runVars, gen, resolved, fetchVars, saves>>

\* The end of one retry pass: the next `for attempt in range(...)` round
RetryEnd ==
    /\ phase = "retry"
    /\ pos > Len(retry_list)
    /\ EnterRetry(retry_attempt + 1)
    /\ UNCHANGED <<to_run, retry_failed, max_retry_attempts, dry_run,
                   skip_scrape, scrape_results, invocations, exit_code,
                   storeVars, runVars, gen, resolved, fetchVars, saves>>

\* What the dry-run branch does to the tables: get_scraper_map builds the
\* scrapers, no run method is called
DryRunLogged ==
    /\ DbLogScrape("Westerbergen", "dry-run", 0, 0, now)
    /\ UNCHANGED <<prices, prices_seq, call>>

DryRunStore == UNCHANGED <<prices, prices_seq, scrape_log, call>>

\* The dry-run branch: a "dry-run" result per listed key, westerbergen and
\* the enabled ones
DryRunPass ==
    /\ phase = "dry"
    /\ \E enabled \in SUBSET Optional :
          LET keys == ToRun(ScraperKeys, enabled) IN
          scrape_results' = [key \in {keys[i] : i \in 1..Len(keys)} |->
                               [status |-> "dry-run", records |-> 0]]
    /\ DryRunStore
    /\ phase' = "analytics"
    /\ UNCHANGED <<to_run, retry_failed, max_retry_attempts, dry_run,
                   skip_scrape, pos, retry_attempt, retry_list, failed_scrapers,
                   invocations, exit_code, now, runVars, gen, resolved,
                   fetchVars, saves>>

\* fail_count
FailCount(res) ==
    Cardinality({k \in DOMAIN res : res[k].status = "failed"})

\* total_records
RECURSIVE SumRecords(_, _)
SumRecords(res, keys) ==
    IF keys = {} THEN 0
    ELSE LET k == CHOOSE x \in keys : TRUE
         IN  res[k].records + SumRecords(res, keys \ {k})

\* "Determine exit code"
ExitCode(dry, skip, res) ==
    IF dry \/ skip THEN EXIT_SUCCESS
    ELSE IF FailCount(res) = 0 THEN EXIT_SUCCESS
    ELSE IF SumRecords(res, DOMAIN res) > 0 THEN EXIT_PARTIAL
    ELSE EXIT_FATAL

\* Phases 2 to 4 (analytics, dashboard, git push: they read the tables and
\* write files), the summary and the return
PipelineEnd ==
    /\ phase = "analytics"
    /\ exit_code' = Some(ExitCode(dry_run, skip_scrape, scrape_results))
    /\ phase' = "done"
    /\ UNCHANGED <<to_run, retry_failed, max_retry_attempts, dry_run,
                   skip_scrape, pos, retry_attempt, retry_list, failed_scrapers,
                   scrape_results, invocations, storeVars, runVars, gen,
                   resolved, fetchVars, saves>>

NextPipeline ==
    \/ FirstPassRun \/ FirstPassEnd \/ RetryRun \/ RetryEnd
    \/ DryRunPass \/ PipelineEnd

PipelineSpec == InitPipeline /\ [][NextPipeline]_vars

\* ------------------------------------------------------------------ run claims
\* The windows of the run for which results holds a record
Captured ==
    {i \in 1..nwin :
        \E k \in 1..Len(results) :
            /\ results[k].check_in_date = DateWindow(i).check_in
            /\ results[k].check_out_date = DateWindow(i).check_out}

RunEnded == variant = "run" /\ pc \in {"done", "raised"}

LastLog == scrape_log[Len(scrape_log)]

\* C7: when run() has ended, every window that was attempted and yielded no
\* record was attempted exactly max_retries times, and a window that yielded
\* a record was attempted at most max_retries times.
C7_ExactlyMaxRetries ==
    RunEnded =>
       \A i \in 1..nwin :
          /\ (i \notin Captured /\ tries[i] > 0) => tries[i] = max_retries
          /\ (i \in Captured) => tries[i] \in 1..max_retries

\* C8: a finished run in which k of N windows (0 < k < N) yielded no record
\* is logged partial with records_scraped = N - k; with k = 0 it is logged
\* success.
C8_PartialWhenSomeWindowsFail ==
    (variant = "run" /\ pc = "done") =>
       LET k == nwin - Cardinality(Captured) IN
       /\ (0 < k /\ k < nwin) =>
             /\ LastLog.status = "partial"
             /\ LastLog.records_scraped = nwin - k
       /\ (k = 0) => LastLog.status = "success"

\* C9: a run that ends with zero captured records is logged failed (stated
\* for the runs that reach their log_scrape call).
C9_ZeroRecordsFailed ==
    (pc = "done" /\ results = <<>>) => LastLog.status = "failed"

\* C10: a run that captured at least one record and counted at least one
\* error is logged partial (stated for the runs that reach their log_scrape
\* call).
C10_PartialWhenRecordsAndErrors ==
    (pc = "done" /\ results # <<>> /\ errors > 0)
    => LastLog.status = "partial"

\* C11: every invocation of run() or run_efficient() that has ended, by
\* returning or by raising, has appended exactly one scrape_log row.
C11_OneLogRowPerInvocation ==
    (pc \in {"done", "raised"}) => Len(scrape_log) = 1

\* C12: any two consecutive outbound requests of the scraper instance are at
\* least rate_limit apart.
C12_RequestGapAtLeastRateLimit ==
    (request_gap # None) => request_gap[1] >= rate_limit

\* A row of the store that holds record rec
Stored(rec) ==
    \E r \in prices :
       /\ r.competitor_name = rec.competitor_name
       /\ r.check_in_date = rec.check_in_date
       /\ r.check_out_date = rec.check_out_date
       /\ r.price = rec.price
       /\ r.available = IntOfBool(rec.available)

\* C13: at every point of BaseScraper.run, also when the run is interrupted
\* by an exception and before each attempt on the next window, every record
\* of the result list is a row of the price store.
C13_ResultsAreStored ==
    (variant = "run") => \A k \in 1..Len(results) : Stored(results[k])

\* run() raised during window 2, after window 1 gave a record
C13_Witness ==
    /\ variant = "run"
    /\ pc = "raised"
    /\ Len(results) = 1
    /\ di = 2
    /\ tries[2] >= 1
    /\ Stored(results[1])

\* ------------------------------------------------------------------ adapter claims
\* C23: every row the adapters have written to the price table has
\* min_nights equal to the number of days from its check_in_date to its
\* check_out_date.
C23_MinNightsIsDateDifference ==
    \A r \in prices :
       r.min_nights = Some(r.check_out_date - r.check_in_date)

\* C25: in a run_efficient of the grid, matrix or session adapter no two
\* records of the returned list have the same (check-in, check-out) pair,
\* and save_price has been called once per returned record and no more, so
\* at most once per pair.
C25_OneSavePerStay ==
    variant \in {"grid", "matrix", "session"} =>
       /\ \A i, j \in 1..Len(results) :
             (/\ results[i].check_in_date = results[j].check_in_date
              /\ results[i].check_out_date = results[j].check_out_date)
                => i = j
       /\ call.seq = Len(results)
       /\ Cardinality(prices) = Len(results)

\* The grid adapter took (20, 22) at price 100 from one page and then took
\* (21, 24) from a page that offers (20, 22) again, at price 150
C25_Witness ==
    /\ variant = "grid"
    /\ Len(results) = 2
    /\ results[1].check_in_date = 20 /\ results[1].check_out_date = 22
    /\ results[1].price = Some(100)
    /\ results[2].check_in_date = 21 /\ results[2].check_out_date = 24
    /\ Cardinality(prices) = 2

\* C26: the grid adapter parses no page beyond number max_pages, and after a
\* page whose last visible date is later than the target end date, or that
\* has no 'Later' link, it does not go on to another page.
C26_GridPagingStops ==
    (variant = "grid" /\ last_unit # None) =>
       /\ last_unit[1].number <= max_pages
       /\ (last_unit[1].past_end \/ ~last_unit[1].later)
             => ~last_unit[1].paged

\* C27: a page that lacks the expected structure contributes no record and
\* does not end the paging: when a way on to a later page exists and the
\* page limit is not reached, the run goes on to that page.
C27_MissingStructureSkipsUnit ==
    (/\ variant \in {"grid", "matrix"}
     /\ last_unit # None
     /\ last_unit[1].structure = "absent") =>
       /\ last_unit[1].captured = 0
       /\ (last_unit[1].later /\ last_unit[1].number < max_pages)
             => last_unit[1].paged

\* C28: the REST adapter stores a departure only when its night count is in
\* the whitelist, with price totalPrice + additionalPrice (absent when
\* totalPrice is absent), and a malformed departure (no date, or not of the
\* expected shape) stores nothing and leaves the loop running for the
\* departures after it.
C28_RestDepartureHandling ==
    (variant = "rest" /\ last_unit # None) =>
       LET d == last_unit[1].departure
           stored == last_unit[1].stored
       IN  /\ stored # <<>> =>
                 /\ d.nights \in RestWhitelist
                 /\ call.rec = Some(stored[1])
                 /\ stored[1].price =
                       (IF d.totalPrice = None THEN None
                        ELSE Some(d.totalPrice[1] + d.additionalPrice))
           /\ (d.shape # "dict" \/ d.date = None) =>
                 /\ stored = <<>>
                 /\ ~last_unit[1].aborted
                 /\ pc # "finish"

\* C29: the session adapter never has more than 10 price requests
\* outstanding, issues no request of a later batch while a request of an
\* earlier batch is outstanding, and a failed request yields no prices for
\* its date while the other requests of its batch yield theirs and the
\* script goes on to request every date.
C29_SessionBatches ==
    LET Outstanding == {p \in DOMAIN requests : requests[p] = "pending"}
        BatchOf(p) == (p - 1) \div BatchSize
    IN
    /\ Cardinality(Outstanding) <= BatchSize
    /\ \A p \in DOMAIN requests, q \in Outstanding : BatchOf(q) >= BatchOf(p)
    /\ \A p \in DOMAIN requests :
          p <= batch_i =>
             (requests[p] = "ok" <=>
                \E k \in DOMAIN allPrices :
                   allPrices[k].arrivaldate = dates[p])
    /\ fetch_pc = "done" => Len(requests) = Len(dates)

\* Two batches were fetched, the first with a failed request next to a
\* completed one
C29_Witness ==
    /\ fetch_pc = "done"
    /\ Len(dates) > BatchSize
    /\ requests[1] = "failed"
    /\ requests[2] = "ok"
    /\ requests[Len(dates)] = "ok"
    /\ Len(allPrices) = Len(dates) - 1

\* C24: in BaseScraper.run an attempt that fails with a non-timeout
\* exception closes the current page and creates a new one before any
\* further attempt, an attempt that times out leaves the page as it is, and
\* a run that has ended, by returning or by raising, has closed the browser.
C24_PageRecreatedBrowserClosed ==
    /\ [][(variant = "run" /\ tries' # tries) =>
            /\ (last_outcome' = "error" /\ pc' = "loop") =>
                   /\ page' # page
                   /\ page \notin open_pages'
                   /\ open_pages' = {page'}
            /\ last_outcome' = "timeout" =>
                   /\ page' = page
                   /\ open_pages' = open_pages
                   /\ browser' = browser]_vars
    /\ [](RunEnded => (browser = "closed" /\ open_pages = {}))

\* An attempt has just failed with a non-timeout exception: the run goes on
\* with the second page, the first one closed
C24_Witness ==
    /\ variant = "run"
    /\ pc = "loop"
    /\ last_outcome = "error"
    /\ page = 2
    /\ open_pages = {2}
    /\ browser = "open"

\* ------------------------------------------------------------------ helper claims
\* C14: every window generate_check_dates returns has check_out - check_in
\* equal to its nights, no two returned windows have the same (check_in,
\* check_out) pair, and the windows are in non-decreasing check_in order.
C14_WindowsConsistentUniqueSorted ==
    gen.returned =>
       LET ds == gen.dates IN
       /\ \A i \in 1..Len(ds) : ds[i].check_out - ds[i].check_in = ds[i].nights
       /\ \A i, j \in 1..Len(ds) :
             (ds[i].check_in = ds[j].check_in
              /\ ds[i].check_out = ds[j].check_out) => i = j
       /\ \A i \in 1..Len(ds) - 1 : ds[i].check_in <= ds[i + 1].check_in

\* A call whose raw list held a duplicate pair and was not in check_in
\* order, and which returned several windows
C14_Witness ==
    /\ gen.returned
    /\ Len(gen.dates) >= 2
    /\ LET raw == AllWindows(gen.today, gen.days_ahead_list, gen.stay_types) IN
       /\ Len(gen.dates) < Len(raw)
       /\ \E i \in 1..Len(raw) - 1 : raw[i].check_in > raw[i + 1].check_in

\* The years in which the header's day exists, among the reference's year
\* and the following one
Candidates ==
    {y \in {resolved.ref.year, resolved.ref.year + 1} :
        ValidDate(y, resolved.month, resolved.day)}

\* The number of days between a candidate's date and the reference's date
DayDistance(y) ==
    Abs(Ordinal(y, resolved.month, resolved.day)
        - Ordinal(resolved.ref.year, resolved.ref.month, resolved.ref.day))

\* C15: when the header's day exists in the reference's year or the next,
\* _resolve_date returns that day in the one of these years whose date is
\* nearest, in days, to the reference date.
C15_NearestYearChosen ==
    (resolved.returned /\ Candidates # {}) =>
       /\ resolved.date # None
       /\ resolved.date[1][1] \in Candidates
       /\ resolved.date[1][2] = resolved.month
       /\ resolved.date[1][3] = resolved.day
       /\ \A y \in Candidates :
             DayDistance(resolved.date[1][1]) <= DayDistance(y)

\* ------------------------------------------------------------------ store claims
\* The arguments of the last save_price call
Inc == call.rec[1]

\* The stored rows of the key and scrape day of the last save_price call
StoredRows ==
    {r \in prices :
        /\ r.competitor_name = Inc.competitor_name
        /\ r.check_in_date = Inc.check_in_date
        /\ r.check_out_date = Inc.check_out_date
        /\ r.scrape_date = call.at \div TicksPerDay}

LastSave == call.op = "save_price"

\* C1: a save_price call with an absent price, on a key whose stored row of
\* the same scrape day holds a non-absent price, leaves that row's price and
\* available flag as they were, whatever available value the call carries.
C1_AbsentPriceKeepsStored ==
    (LastSave /\ Inc.price = None /\ call.old # None
       /\ call.old[1].price # None)
    => /\ StoredRows # {}
       /\ \A r \in StoredRows :
             /\ r.price = call.old[1].price
             /\ r.available = call.old[1].available

C1_Witness ==
    /\ LastSave
    /\ Inc.price = None
    /\ call.old # None
    /\ call.old[1].price # None
    /\ call.old[1].available # IntOfBool(Inc.available)

\* C2: save_price called twice in a row on one scrape day with the same
\* arguments and a non-absent price: after the second call the key has
\* exactly one row, its price and available flag are those after the first
\* call, and the table has as many rows as before.
C2_SameSaveTwiceIdempotent ==
    [][(/\ call.op = "save_price"
        /\ call'.op = "save_price"
        /\ call'.seq = call.seq + 1
        /\ call'.rec = call.rec
        /\ call'.at \div TicksPerDay = call.at \div TicksPerDay
        /\ call.rec[1].price # None)
       => LET key(r) == /\ r.competitor_name = call.rec[1].competitor_name
                        /\ r.check_in_date = call.rec[1].check_in_date
                        /\ r.check_out_date = call.rec[1].check_out_date
                        /\ r.scrape_date = call.at \div TicksPerDay
              before == {r \in prices : key(r)}
              after == {r \in prices' : key(r)}
          IN  /\ Cardinality(after) = 1
              /\ Cardinality(prices') = Cardinality(prices)
              /\ \A r \in before, r2 \in after :
                    r2.price = r.price /\ r2.available = r.available]_vars

C2_Witness ==
    /\ LastSave
    /\ call.seq = 2
    /\ Inc.price # None
    /\ call.old # None
    /\ call.old[1].price = Inc.price
    /\ call.old[1].available = IntOfBool(Inc.available)
    /\ call.old[1].accommodation_type = Inc.accommodation_type
    /\ Cardinality(StoredRows) = 1

\* C3: a save_price call with a non-absent price on a key that already has a
\* row on the same scrape day replaces the stored price and available flag
\* by the incoming ones, and the key keeps exactly one row.
C3_PresentPriceReplaces ==
    (LastSave /\ Inc.price # None /\ call.old # None)
    => /\ Cardinality(StoredRows) = 1
       /\ \A r \in StoredRows :
             /\ r.price = Inc.price
             /\ r.available = IntOfBool(Inc.available)

C3_Witness ==
    /\ LastSave
    /\ Inc.price # None
    /\ call.old # None
    /\ call.old[1].price = None
    /\ \E r \in StoredRows : r.price = Inc.price

\* C4: no two rows of table prices share
\* (competitor_name, check_in_date, check_out_date, scrape_date).
C4_UniqueKey ==
    \A r1, r2 \in prices :
        (/\ r1.competitor_name = r2.competitor_name
         /\ r1.check_in_date = r2.check_in_date
         /\ r1.check_out_date = r2.check_out_date
         /\ r1.scrape_date = r2.scrape_date)
        => r1 = r2

C4_Witness ==
    /\ LastSave
    /\ call.seq = 2
    /\ call.old # None
    /\ Cardinality(prices) = 1

\* C5: on a key conflict save_price overwrites accommodation_type,
\* min_nights, special_offers, persons and scrape_timestamp with the incoming
\* values, whether or not the incoming price is absent.
C5_OtherFieldsOverwritten ==
    (LastSave /\ call.old # None)
    => /\ StoredRows # {}
       /\ \A r \in StoredRows :
             /\ r.accommodation_type = Inc.accommodation_type
             /\ r.min_nights = Inc.min_nights
             /\ r.special_offers = Inc.special_offers
             /\ r.persons = Inc.persons
             /\ r.scrape_timestamp = call.at

C5_Witness ==
    /\ LastSave
    /\ Inc.price = None
    /\ Inc.special_offers = None
    /\ call.old # None
    /\ call.old[1].price # None
    /\ call.old[1].special_offers # None
    /\ call.old[1].scrape_timestamp # call.at
    /\ \E r \in StoredRows :
          r.price = call.old[1].price /\ r.special_offers = None

\* C6: no step removes a row of table prices, and a step taken on scrape day
\* D leaves every row of an earlier scrape day unchanged.
C6_HistoryKept ==
    [][\A r \in prices :
          /\ \E r2 \in prices' : r2.id = r.id
          /\ (r.scrape_date < now \div TicksPerDay) => r \in prices']_vars

C6_Witness ==
    /\ LastSave
    /\ call.old = None
    /\ \E r1, r2 \in prices :
          /\ r1.competitor_name = r2.competitor_name
          /\ r1.check_in_date = r2.check_in_date
          /\ r1.check_out_date = r2.check_out_date
          /\ r1.scrape_date < r2.scrape_date
          /\ r2.competitor_name = Inc.competitor_name
          /\ r2.scrape_timestamp = call.at
          /\ r1.id < r2.id

\* C30: after any sequence of save_price calls on one key within one scrape
\* day, the key has one stored row; if a call carried a price, the row's
\* price and available are those of the most recent such call; if none
\* did, the row's price is absent and its available is the first call's.
C30_StoredIsLastPricedCall ==
    \A s \in {saves[k] : k \in DOMAIN saves} :
       LET key == ConflictKey(Excluded(s.rec, s.at))
           OnKey(x) == ConflictKey(Excluded(x.rec, x.at)) = key
           Priced(x) == x.rec.price # None
           all == SelectSeq(saves, OnKey)
           priced == SelectSeq(all, Priced)
           rows == {r \in prices : ConflictKey(r) = key}
       IN  /\ Cardinality(rows) = 1
           /\ \A r \in rows :
                 IF priced # <<>>
                 THEN /\ r.price = priced[Len(priced)].rec.price
                      /\ r.available =
                            IntOfBool(priced[Len(priced)].rec.available)
                 ELSE /\ r.price = None
                      /\ r.available = IntOfBool(all[1].rec.available)

\* Three calls on one key within one day: without price and unavailable,
\* then priced and available, then without price and unavailable again
C30_Witness ==
    /\ Len(saves) = 3
    /\ \A k \in 2..3 :
          ConflictKey(Excluded(saves[k].rec, saves[k].at))
             = ConflictKey(Excluded(saves[1].rec, saves[1].at))
    /\ saves[1].rec.price = None /\ ~saves[1].rec.available
    /\ saves[2].rec.price # None /\ saves[2].rec.available
    /\ saves[3].rec.price = None /\ ~saves[3].rec.available

\* ------------------------------------------------------------------ pipeline claims
\* The calls made for one scraper key, as positions in invocations
CallsOf(key) == {n \in 1..Len(invocations) : invocations[n].key = key}

\* The keys selected for the run
Selected == {to_run[i] : i \in 1..Len(to_run)}

\* C19: in the first pass an exception of one source's run_efficient is
\* recorded as that source's failure and does not stop the pass: the sources
\* are run in order whatever the earlier ones did, and once the pass is over
\* every selected source has been run exactly once in it.
C19_FirstPassRunsEverySource ==
    /\ phase # "crashed"
    /\ phase = "first" =>
          /\ Len(invocations) = pos - 1
          /\ \A n \in 1..Len(invocations) :
                /\ invocations[n].key = to_run[n]
                /\ invocations[n].pass = 0
                /\ invocations[n].raised
                      <=> scrape_results[to_run[n]].status = "failed"
                /\ invocations[n].raised
                      <=> \E k \in 1..Len(failed_scrapers) :
                             failed_scrapers[k] = to_run[n]
    /\ phase \in {"retry", "analytics"} =>
          \A key \in Selected :
             Cardinality({n \in CallsOf(key) : invocations[n].pass = 0}) = 1

\* The first source raised, and a later source was run in the first pass
\* and returned
C19_Witness ==
    /\ phase \in {"retry", "analytics"}
    /\ Len(invocations) >= 2
    /\ invocations[1].raised /\ invocations[1].pass = 0
    /\ ~invocations[2].raised /\ invocations[2].pass = 0

\* C20: no retry is made before every selected source has had its first
\* run; the passes follow each other; a retry is made only of a source whose
\* previous run raised, so a source whose run returned is not run again;
\* and no source is run more than 1 + max_retry_attempts times.
C20_FirstPassThenRetriesOfFailed ==
    /\ \A n \in 1..Len(invocations) :
          invocations[n].pass > 0 =>
             /\ \A key \in Selected :
                   \E m \in 1..(n - 1) :
                      invocations[m].key = key /\ invocations[m].pass = 0
             /\ \E m \in 1..(n - 1) :
                   /\ invocations[m].key = invocations[n].key
                   /\ invocations[m].raised
                   /\ \A l \in (m + 1)..(n - 1) :
                         invocations[l].key # invocations[n].key
    /\ \A m, n \in 1..Len(invocations) :
          m < n =>
             /\ invocations[m].pass <= invocations[n].pass
             /\ (invocations[m].key = invocations[n].key)
                   => invocations[m].raised
    /\ \A key \in Selected :
          Cardinality(CallsOf(key)) <= 1 + max_retry_attempts

\* One source raised in the first pass and in every retry, another returned
\* in the first pass and was left alone
C20_Witness ==
    /\ phase = "analytics"
    /\ max_retry_attempts = MaxRetryAttempts
    /\ \E a, b \in Selected :
          /\ Cardinality(CallsOf(a)) = 1 + max_retry_attempts
          /\ Cardinality(CallsOf(b)) = 1
          /\ scrape_results[b].status = "success"
          /\ scrape_results[a].status = "failed"

\* C21: a full run returns 0 only when no source failed, 1 when some source
\* failed and records were scraped, and 2 when no record was scraped by any
\* source.
C21_ExitCodeByOutcome ==
    (phase = "done" /\ ~dry_run /\ ~skip_scrape) =>
       LET failed == {k \in DOMAIN scrape_results :
                         scrape_results[k].status = "failed"}
           total == SumRecords(scrape_results, DOMAIN scrape_results)
       IN  /\ exit_code = Some(EXIT_SUCCESS) => failed = {}
           /\ (failed # {} /\ total > 0) => exit_code = Some(EXIT_PARTIAL)
           /\ total = 0 => exit_code = Some(EXIT_FATAL)

\* C22: with dry_run or skip_scrape no scraper is run and the price table
\* and the scrape log hold, at every point of the call and after it, the
\* rows they held before it; the call returns EXIT_SUCCESS.
C22_DryRunAndSkipScrapeLeaveTables ==
    (dry_run \/ skip_scrape) =>
       /\ invocations = <<>>
       /\ prices = SeedRows
       /\ scrape_log = SeedLog
       /\ phase = "done" => exit_code = Some(EXIT_SUCCESS)

\* A dry run that has returned, with its simulated result for westerbergen,
\* on a database that holds rows
C22_Witness ==
    /\ dry_run /\ ~skip_scrape
    /\ phase = "done"
    /\ "westerbergen" \in DOMAIN scrape_results
    /\ scrape_results["westerbergen"].status = "dry-run"
    /\ prices # {} /\ scrape_log # <<>>

\* ------------------------------------------------------------------ query claims
\* The rows stored for the stay key of row r
RowsOfKey(r) == {q \in prices : StayKey(q) = StayKey(r)}

\* C16: get_latest_prices returns stored rows only, and for each stay key
\* that has rows exactly one row, which has the largest scrape_timestamp of
\* the key; with a competitor given it returns that competitor's part; and
\* after save_price(price=150, available=true) on a key that had no row, it
\* returns the saved row.
C16_LatestIsMaxTimestampPerKey ==
    LET latest == get_latest_prices(prices, None) IN
    /\ latest \subseteq prices
    /\ \A r \in prices :
          \E p \in latest :
             /\ SameStay(latest, r) = {p}
             /\ p.scrape_timestamp >= r.scrape_timestamp
    /\ \A c \in Competitors :
          get_latest_prices(prices, Some(c))
             = {p \in latest : p.competitor_name = c}
    /\ (/\ LastSave
        /\ Inc.price = Some(150)
        /\ Inc.available
        /\ call.old = None
        /\ Cardinality(SameStay(prices, Inc)) = 1)
       => \E p \in latest :
             /\ SameStay({p}, Inc) = {p}
             /\ p.price = Some(150)
             /\ p.available = 1

\* A key stored on two scrape days, of which the later row is returned
C16_Witness ==
    \E r, q \in prices :
       /\ StayKey(r) = StayKey(q)
       /\ r.scrape_date < q.scrape_date
       /\ q \in get_latest_prices(prices, None)
       /\ r \notin get_latest_prices(prices, None)

\* The scrape days and the accepted night counts asked for
QueryDays == {r.scrape_date : r \in prices} \cup {DateOf(now)}

QueryDurations ==
    {None} \cup {Some(S) : S \in SUBSET {Nights(x) : x \in SaveArgs}}

\* C17 as stated: get_comparison_data(D, S) returns exactly the stored rows
\* of scrape day D whose night count is in S.
C17_ComparisonExactlyDayAndNights ==
    \A D \in QueryDays, S \in QueryDurations :
       get_comparison_data(prices, D, S)
          = {ComparisonRow(r) :
               r \in {x \in prices :
                        /\ x.scrape_date = D
                        /\ Nights(x) \in (IF S = None THEN DefaultDurations
                                           ELSE S[1])}}

\* C17 amended: get_comparison_data(D, S) returns exactly the stored rows of
\* scrape day D that have a price and whose night count is in S.
C17_ComparisonPricedDayAndNights ==
    \A D \in QueryDays, S \in QueryDurations :
       get_comparison_data(prices, D, S)
          = {ComparisonRow(r) :
               r \in {x \in prices :
                        /\ x.scrape_date = D
                        /\ x.price # None
                        /\ Nights(x) \in (IF S = None THEN DefaultDurations
                                           ELSE S[1])}}

\* Two rows of one scrape day with different night counts, one of them
\* asked for and returned, the other left out
C17_Witness ==
    \E r, q \in prices :
       /\ r.scrape_date = q.scrape_date
       /\ Nights(r) # Nights(q)
       /\ r.price # None /\ q.price # None
       /\ get_comparison_data(prices, r.scrape_date, Some({Nights(r)}))
             = {ComparisonRow(r)}

\* C18 as stated: get_price_history(source, check_in) returns the rows of
\* one stay, that is of one (source, check-in, check-out) key, and all of
\* them, by ascending scrape_timestamp.
C18_HistoryOfOneStay ==
    \A c \in Competitors, ci \in {x.check_in_date : x \in SaveArgs} :
       \A h \in get_price_history(prices, c, ci) :
          /\ \A i, j \in 1..Len(h) : StayKey(h[i]) = StayKey(h[j])
          /\ \A i \in 1..Len(h) : \A q \in RowsOfKey(h[i]) :
                \E j \in 1..Len(h) : h[j] = q
          /\ \A i, j \in 1..Len(h) :
                i < j => h[i].scrape_timestamp <= h[j].scrape_timestamp

\* C18 amended: get_price_history(source, check_in) returns the stored rows
\* of that source and check-in date, of every check-out date and scrape
\* day, all of them and only those, by ascending scrape_timestamp; the rows
\* of one key come in the order of their scrape days.
C18_HistoryOfSourceAndCheckIn ==
    \A c \in Competitors, ci \in {x.check_in_date : x \in SaveArgs} :
       \A h \in get_price_history(prices, c, ci) :
          /\ {h[i] : i \in 1..Len(h)}
                = {r \in prices : r.competitor_name = c /\ r.check_in_date = ci}
          /\ Len(h) = Cardinality({r \in prices : /\ r.competitor_name = c
                                                   /\ r.check_in_date = ci})
          /\ \A i, j \in 1..Len(h) :
                i < j => h[i].scrape_timestamp <= h[j].scrape_timestamp
          /\ \A i, j \in 1..Len(h) :
                (StayKey(h[i]) = StayKey(h[j])
                 /\ h[i].scrape_date < h[j].scrape_date) => i < j

\* One key stored on day D1 and on day D2, returned in that order
C18_Witness ==
    \E c \in Competitors, ci \in {x.check_in_date : x \in SaveArgs} :
       \E h \in get_price_history(prices, c, ci) :
          /\ Len(h) = 2
          /\ StayKey(h[1]) = StayKey(h[2])
          /\ h[1].scrape_date < h[2].scrape_date

====
